---- MODULE Spec2Model ----
(***************************************************************************)
(* A model of the utagrades client: the SearchBar component                *)
(* (src/src/app/components/SearchBar.tsx) and the results view             *)
(* (src/src/app/results/page.tsx).                                         *)
(*                                                                         *)
(* Strings are sequences of one-character strings, so that the regular     *)
(* expressions, split and join of the source are computed, not assumed.    *)
(***************************************************************************)
EXTENDS Integers, Sequences, FiniteSets, TLC

\* ------------------------------------------------------------------------
\* Bounds of the model
\* ------------------------------------------------------------------------

\* Keystrokes recorded in one burst (one armed debounce timer).
MaxBurst == 2

\* Suggestion requests dispatched in one run.
MaxRequests == 2

\* ------------------------------------------------------------------------
\* Strings
\* ------------------------------------------------------------------------

Letters ==
    { "a", "b", "c", "d", "e", "f", "g", "h", "i", "j", "k", "l", "m",
      "n", "o", "p", "q", "r", "s", "t", "u", "v", "w", "x", "y", "z",
      "A", "B", "C", "D", "E", "F", "G", "H", "I", "J", "K", "L", "M",
      "N", "O", "P", "Q", "R", "S", "T", "U", "V", "W", "X", "Y", "Z" }

Digits == { "0", "1", "2", "3", "4", "5", "6", "7", "8", "9" }

\* The characters \s matches, among those the model's strings use.
Spaces == { " ", "\t" }

IsLetter(c) == c \in Letters

IsDigit(c) == c \in Digits

IsSpace(c) == c \in Spaces

\* A value no string equals: JavaScript's undefined / null for a string slot.
Undefined == << "undefined" >>

Min(a, b) == IF a <= b THEN a ELSE b

\* input.replace(/\s+/g, '')
StripSpaces(s) == SelectSeq(s, LAMBDA c : ~IsSpace(c))

\* The length of the longest prefix of s made of letters: what a greedy
\* [a-zA-Z]+ anchored at the start consumes.
LetterPrefixLen(s) ==
    CHOOSE k \in 0..Len(s) :
        /\ \A i \in 1..k : IsLetter(s[i])
        /\ (k = Len(s) \/ ~IsLetter(s[k + 1]))

\* /^[a-zA-Z]+\d+$/.test(s)
MatchesCoursePattern(s) ==
    LET k == LetterPrefixLen(s)
    IN  /\ k >= 1
        /\ k < Len(s)
        /\ \A i \in (k + 1)..Len(s) : IsDigit(s[i])

\* /^[a-zA-Z]+g$/i.test(s)
MatchesProfessorPattern(s) ==
    /\ Len(s) >= 2
    /\ \A i \in 1..Len(s) : IsLetter(s[i])
    /\ s[Len(s)] \in { "g", "G" }

\* input.replace(/\s+/g, ' '): every run of whitespace becomes one space.
RECURSIVE CollapseSpaces(_)
CollapseSpaces(s) ==
    IF s = << >> THEN << >>
    ELSE IF IsSpace(s[1])
         THEN IF Len(s) >= 2 /\ IsSpace(s[2])
              THEN CollapseSpaces(Tail(s))
              ELSE << " " >> \o CollapseSpaces(Tail(s))
         ELSE << s[1] >> \o CollapseSpaces(Tail(s))

\* String.prototype.trim
RECURSIVE TrimLeft(_)
TrimLeft(s) ==
    IF s # << >> /\ IsSpace(s[1]) THEN TrimLeft(Tail(s)) ELSE s

RECURSIVE TrimRight(_)
TrimRight(s) ==
    IF s # << >> /\ IsSpace(s[Len(s)])
    THEN TrimRight(SubSeq(s, 1, Len(s) - 1))
    ELSE s

Trim(s) == TrimRight(TrimLeft(s))

\* A normalizer whose replacements are made in the input as typed, with its
\* whitespace still in it.
normalizeSearchInputKeepSpaces(input) ==
    LET noSpaces == StripSpaces(input)
    IN  IF MatchesCoursePattern(noSpaces)
        THEN LET k == LetterPrefixLen(input)
             IN  SubSeq(input, 1, k) \o << " " >>
                     \o SubSeq(input, k + 1, Len(input))
        ELSE IF MatchesProfessorPattern(noSpaces) /\ input[Len(input)] \in { "g", "G" }
        THEN SubSeq(input, 1, Len(input) - 1) \o << " ", "g" >>
        ELSE Trim(CollapseSpaces(input))

\* SearchBar.tsx, normalizeSearchInput
normalizeSearchInput(input) ==
    LET noSpaces == StripSpaces(input)
    IN  IF MatchesCoursePattern(noSpaces)
        THEN \* noSpaces.replace(/([a-zA-Z]+)(\d+)/i, '$1 $2')
             LET k == LetterPrefixLen(noSpaces)
             IN  SubSeq(noSpaces, 1, k) \o << " " >>
                     \o SubSeq(noSpaces, k + 1, Len(noSpaces))
        ELSE IF MatchesProfessorPattern(noSpaces)
        THEN \* noSpaces.replace(/g$/i, ' g')
             SubSeq(noSpaces, 1, Len(noSpaces) - 1) \o << " ", "g" >>
        ELSE Trim(CollapseSpaces(input))

\* s.split(" ")
RECURSIVE Split(_)
Split(s) ==
    IF \A i \in 1..Len(s) : s[i] # " "
    THEN << s >>
    ELSE LET i == CHOOSE j \in 1..Len(s) :
                      /\ s[j] = " "
                      /\ \A h \in 1..(j - 1) : s[h] # " "
         IN  << SubSeq(s, 1, i - 1) >> \o Split(SubSeq(s, i + 1, Len(s)))

\* parts.join(" ")
RECURSIVE Join(_)
Join(parts) ==
    IF parts = << >> THEN << >>
    ELSE IF Len(parts) = 1 THEN parts[1]
    ELSE parts[1] \o << " " >> \o Join(Tail(parts))

\* parts.slice(0, 2)
SliceTwo(parts) == SubSeq(parts, 1, Min(2, Len(parts)))

\* A run of decimal digits, at least one.
AllDigits(s) == Len(s) >= 1 /\ \A i \in 1..Len(s) : IsDigit(s[i])

\* An unsigned decimal mantissa: digits, digits., digits.digits or .digits
IsMantissa(s) ==
    \/ AllDigits(s)
    \/ \E d \in 1..Len(s) :
          /\ s[d] = "."
          /\ LET before == SubSeq(s, 1, d - 1)
                 after  == SubSeq(s, d + 1, Len(s))
             IN  /\ before = << >> \/ AllDigits(before)
                 /\ after = << >> \/ AllDigits(after)
                 /\ before # << >> \/ after # << >>

\* An exponent part after the e: an optional sign and digits.
IsExponent(s) ==
    \/ AllDigits(s)
    \/ Len(s) >= 2 /\ s[1] \in { "+", "-" } /\ AllDigits(Tail(s))

\* An unsigned StrDecimalLiteral.
IsUnsignedDecimal(s) ==
    \/ IsMantissa(s)
    \/ \E e \in 2..(Len(s) - 1) :
          /\ s[e] \in { "e", "E" }
          /\ IsMantissa(SubSeq(s, 1, e - 1))
          /\ IsExponent(SubSeq(s, e + 1, Len(s)))

HexDigits == Digits \cup { "a", "b", "c", "d", "e", "f",
                           "A", "B", "C", "D", "E", "F" }

\* 0x.., 0o.., 0b.. (no sign allowed)
IsNonDecimalInteger(s) ==
    /\ Len(s) >= 3
    /\ s[1] = "0"
    /\ \/ s[2] \in { "x", "X" } /\ \A i \in 3..Len(s) : s[i] \in HexDigits
       \/ s[2] \in { "o", "O" }
              /\ \A i \in 3..Len(s) : s[i] \in { "0", "1", "2", "3", "4", "5", "6", "7" }
       \/ s[2] \in { "b", "B" } /\ \A i \in 3..Len(s) : s[i] \in { "0", "1" }

\* isNaN(Number(s)) for a token s without whitespace: Number accepts the
\* empty string, a signed decimal literal and an unsigned 0x/0o/0b literal.
NumberIsNaN(s) ==
    ~ \/ s = << >>
      \/ IsUnsignedDecimal(s)
      \/ Len(s) >= 2 /\ s[1] \in { "+", "-" } /\ IsUnsignedDecimal(Tail(s))
      \/ IsNonDecimalInteger(s)

\* encodeURIComponent, on the characters the model's strings use: letters,
\* digits and - _ . ! ~ * ' ( ) are kept, anything else is %-escaped.
EncodeChar(c) ==
    IF c = " " THEN << "%", "2", "0" >>
    ELSE IF c = "+" THEN << "%", "2", "B" >>
    ELSE IF c = "%" THEN << "%", "2", "5" >>
    ELSE << c >>

RECURSIVE encodeURIComponent(_)
encodeURIComponent(s) ==
    IF s = << >> THEN << >>
    ELSE EncodeChar(s[1]) \o encodeURIComponent(Tail(s))

\* ------------------------------------------------------------------------
\* The data the search component meets
\* ------------------------------------------------------------------------

\* lodash.debounce(fn, 100): the wait, in milliseconds.
DebounceWait == 100

\* The model's clock advances in steps of half the wait.
Tick == DebounceWait \div 2

CS3320 == << "C", "S", " ", "3", "3", "2", "0" >>

CS3320OS == << "C", "S", " ", "3", "3", "2", "0", " ", "O", "S" >>

CS1310IP == << "C", "S", " ", "1", "3", "1", "0", " ", "I", "P" >>

AnnLee == << "A", "n", "n", " ", "L", "e", "e" >>

BoRayKim == << "B", "o", " ", "R", "a", "y", " ", "K", "i", "m" >>

\* What the user types: nothing, a course code without its space, a name
\* with stray spaces.
Inputs ==
    { << >>,
      << "c", "s", "3", "3", "2", "0" >>,
      << " ", "a", "n", "n", " " >> }

Suggestion(text, type) == [ suggestion |-> text, type |-> type ]

\* The JSON arrays the search endpoint answers with.
Replies ==
    { << >>,
      << Suggestion(CS3320OS, "course"), Suggestion(AnnLee, "professor") >>,
      << Suggestion(BoRayKim, "professor"), Suggestion(CS1310IP, "course") >> }

\* How a request settles: rejected by fetch, rejected by response.json(),
\* or fulfilled with a JSON array.
Outcomes ==
    { [ kind |-> "transport", data |-> << >> ],
      [ kind |-> "parse", data |-> << >> ] }
        \cup { [ kind |-> "ok", data |-> r ] : r \in Replies }

\* The props a parent can mount the component with.
CourseProps == { Undefined, CS3320 }

ProfessorProps == { Undefined, AnnLee }

RouteTypes == { "course", "professor", "null" }

InitialValues == { << >>, CS3320 }

\* ------------------------------------------------------------------------
\* State
\* ------------------------------------------------------------------------

VARIABLES
    \* SearchBar: props
    initialValue, resetState, course, professor, routeType,
    \* SearchBar: state
    mounted, searchInput, suggestions, isLoading,
    \* the debounced fetchSuggestions: its timer, its latest argument, the
    \* time since its latest call
    timerPending, lastArgs, sinceCall,
    \* the input of the latest keystroke, while its debounced call is pending,
    \* and the number of keystrokes of the latest burst (one armed timer)
    lastKey, burstKeys,
    \* the number of suggestion requests dispatched so far, and those still in
    \* flight, each with its dispatch number and the query it carries
    dispatched, inflight,
    \* the request whose settling last wrote suggestions: its dispatch number
    \* (0: none yet) and whether it was fulfilled or rejected
    applied,
    \* what the latest selection event did: the suggestion selected, the
    \* router.push calls made, the number of calls of the reset callback
    selection,
    \* whether no key has been typed since the latest selection event
    selectionFresh

searchVars ==
    << initialValue, resetState, course, professor, routeType,
       mounted, searchInput, suggestions, isLoading,
       timerPending, lastArgs, sinceCall, lastKey, burstKeys,
       dispatched, inflight, applied, selection, selectionFresh >>

VARIABLES
    \* the course parameter of the route, and its professor parameter, which
    \* the view does not read
    courseParam, professorParam,
    \* ResultsPage: state
    courses, loading,
    selectedProfessor, selectedYear, selectedSemester, selectedSection,
    \* the number of course fetches issued, and those in flight
    fetched, fetching,
    \* the latest professor click: the professor clicked and the section
    \* that was selected when the click came
    professorClick,
    \* the course fetch that settled last: its number (0: none yet) and
    \* whether it was fulfilled or rejected
    settled

resultsVars ==
    << courseParam, professorParam, courses, loading,
       selectedProfessor, selectedYear, selectedSemester, selectedSection,
       fetched, fetching, professorClick, settled >>

selectionVars ==
    << selectedProfessor, selectedYear, selectedSemester, selectedSection >>

VARIABLES
    \* normalizeSearchInput applied to a string, and to its own result
    raw, once, twice,
    \* the text of a suggestion handed to handleSearch, and the value its
    \* router.push carries
    picked, carried

pureVars == << raw, once, twice, picked, carried >>

vars == << searchVars, resultsVars, pureVars >>

propVars == << initialValue, resetState, course, professor, routeType >>

debounceVars == << timerPending, lastArgs, sinceCall, lastKey, burstKeys >>

requestVars == << dispatched, inflight, applied >>

\* No selection event yet.
NoSelection == [ suggestion |-> Undefined, pushes |-> << >>, resets |-> 0 ]

\* The component as first rendered: useState(initialValue), useState([]),
\* useState(false); nothing typed, nothing requested.
SearchInit ==
    /\ initialValue \in InitialValues
    /\ resetState \in BOOLEAN
    /\ course \in CourseProps
    /\ professor \in ProfessorProps
    /\ routeType \in RouteTypes
    /\ mounted = TRUE
    /\ searchInput = initialValue
    /\ suggestions = << >>
    /\ isLoading = FALSE
    /\ timerPending = FALSE
    /\ lastArgs = Undefined
    /\ sinceCall = 0
    /\ lastKey = Undefined
    /\ burstKeys = 0
    /\ dispatched = 0
    /\ inflight = { }
    /\ applied = [ seq |-> 0, kind |-> "none" ]
    /\ selection = NoSelection
    /\ selectionFresh = FALSE

\* ------------------------------------------------------------------------
\* SearchBar: typing, the debounce, the fetch
\* ------------------------------------------------------------------------

\* handleInputChange: setSearchInput(input), then the debounced call, which
\* keeps the latest argument and restarts the wait.
handleInputChange(input) ==
    /\ UNCHANGED << resultsVars, pureVars >>
    /\ mounted
    /\ dispatched < MaxRequests
    /\ timerPending => burstKeys < MaxBurst
    /\ searchInput' = input
    /\ lastArgs' = input
    /\ timerPending' = TRUE
    /\ sinceCall' = 0
    /\ lastKey' = input
    /\ burstKeys' = IF timerPending THEN burstKeys + 1 ELSE 1
    /\ selectionFresh' = FALSE
    /\ UNCHANGED << propVars, mounted, suggestions, isLoading,
                    requestVars, selection >>

\* Time passes while the timer is armed.
Elapse ==
    /\ UNCHANGED << resultsVars, pureVars >>
    /\ timerPending
    /\ sinceCall < DebounceWait
    /\ sinceCall' = Min(sinceCall + Tick, DebounceWait)
    /\ UNCHANGED << propVars, mounted, searchInput, suggestions, isLoading,
                    timerPending, lastArgs, lastKey, burstKeys,
                    requestVars, selection, selectionFresh >>

\* The query parameter of the request: the text sent with no normalization.
SuggestionQueryRaw(input) == encodeURIComponent(input)

\* `/api/courses/search?query=${encodeURIComponent(normalizedInput)}`
SuggestionQuery(input) == encodeURIComponent(normalizeSearchInput(input))

\* A call with no check of the input's length.
ShouldFetchAlways(input) == TRUE

\* if (input.length > 0)
ShouldFetch(input) == Len(input) > 0

\* The debounced function's body up to its first await, run with the latest
\* argument once the wait has passed since the latest call.
fetchSuggestionsInvoke ==
    /\ UNCHANGED << resultsVars, pureVars >>
    /\ timerPending
    /\ sinceCall >= DebounceWait
    /\ timerPending' = FALSE
    /\ lastArgs' = Undefined
    /\ lastKey' = Undefined
    /\ IF ShouldFetch(lastArgs)
       THEN /\ isLoading' = TRUE
            /\ dispatched' = dispatched + 1
            /\ inflight' = inflight \cup
                   { [ seq   |-> dispatched + 1,
                       query |-> SuggestionQuery(lastArgs) ] }
            /\ UNCHANGED suggestions
       ELSE /\ suggestions' = << >>
            /\ UNCHANGED << isLoading, dispatched, inflight >>
    /\ UNCHANGED << propVars, mounted, searchInput, sinceCall, burstKeys,
                    applied, selection, selectionFresh >>

\* A catch that leaves the list as it was.
SettledSuggestionsStale(outcome) ==
    IF outcome.kind = "ok" THEN outcome.data ELSE suggestions

\* setSuggestions(data) after the awaits, setSuggestions([]) in the catch.
SettledSuggestions(outcome) ==
    IF outcome.kind = "ok" THEN outcome.data ELSE << >>

\* The rest of the body, when request r settles: setSuggestions(data) or, in
\* the catch, setSuggestions([]); in the finally, setIsLoading(false).
fetchSuggestionsSettle(r, outcome) ==
    /\ UNCHANGED << resultsVars, pureVars >>
    /\ r \in inflight
    /\ inflight' = inflight \ { r }
    /\ suggestions' = SettledSuggestions(outcome)
    /\ isLoading' = FALSE
    /\ applied' = [ seq  |-> r.seq,
                    kind |-> IF outcome.kind = "ok" THEN "fulfilled" ELSE "rejected" ]
    /\ UNCHANGED << propVars, mounted, searchInput, debounceVars,
                    dispatched, selection, selectionFresh >>

\* The effect's cleanup on unmount: fetchSuggestions.cancel() drops the timer
\* and the pending argument. Requests in flight are left alone.
Unmount ==
    /\ UNCHANGED << resultsVars, pureVars >>
    /\ mounted
    /\ mounted' = FALSE
    /\ timerPending' = FALSE
    /\ lastArgs' = Undefined
    /\ lastKey' = Undefined
    /\ UNCHANGED << propVars, searchInput, suggestions, isLoading,
                    sinceCall, burstKeys, requestVars, selection, selectionFresh >>

\* useEffect(() => setSearchInput(initialValue), [initialValue]): the parent
\* renders the component with another initialValue.
InitialValueChange(v) ==
    /\ UNCHANGED << resultsVars, pureVars >>
    /\ mounted
    /\ v # initialValue
    /\ initialValue' = v
    /\ searchInput' = v
    /\ UNCHANGED << resetState, course, professor, routeType,
                    mounted, suggestions, isLoading, debounceVars,
                    requestVars, selection, selectionFresh >>

\* ------------------------------------------------------------------------
\* SearchBar: selecting a suggestion
\* ------------------------------------------------------------------------

\* suggestion.split(" ").slice(0, 2).join(" ")
CourseSuggestion(suggestion) == Join(SliceTwo(Split(suggestion)))

\* The comparison made with the whole suggestion, course title included.
ResetInvocationsFullText(suggestion) ==
    IF ~ \/ (course = suggestion /\ routeType = "course")
         \/ (professor = suggestion /\ routeType = "professor")
    THEN IF resetState THEN 1 ELSE 0
    ELSE 0

\* How many times handleSearch invokes the reset callback: not at all when
\* the content already displayed is searched for, once otherwise, if the
\* parent supplied the callback.
ResetInvocations(suggestion) ==
    IF ~ \/ (course = CourseSuggestion(suggestion) /\ routeType = "course")
         \/ (professor = suggestion /\ routeType = "professor")
    THEN IF resetState THEN 1 ELSE 0
    ELSE 0

\* suggestions.find(s => s.suggestion === suggestion && s.type === "professor")
IsProfessor(suggestion) ==
    \E i \in 1..Len(suggestions) :
        /\ suggestions[i].suggestion = suggestion
        /\ suggestions[i].type = "professor"

\* The value the navigation carries: "<prefix> <number>" when the second of
\* the first two parts has length 4 and converts to a number, else the
\* suggestion as it is.
SearchedValue(suggestion) ==
    LET parts == Split(CourseSuggestion(suggestion))
    IN  IF /\ Len(parts) >= 2
           /\ Len(parts[2]) = 4
           /\ ~NumberIsNaN(parts[2])
        THEN parts[1] \o << " " >> \o parts[2]
        ELSE suggestion

\* The two pushes with the else between them lost.
RouterPushesNoElse(suggestion) ==
    ( IF IsProfessor(suggestion)
      THEN << [ param |-> "professor",
                value |-> encodeURIComponent(SearchedValue(suggestion)) ] >>
      ELSE << >> )
        \o << [ param |-> "course",
                value |-> encodeURIComponent(SearchedValue(suggestion)) ] >>

\* The router.push calls of handleSearch, in order.
RouterPushes(suggestion) ==
    IF IsProfessor(suggestion)
    THEN << [ param |-> "professor",
              value |-> encodeURIComponent(SearchedValue(suggestion)) ] >>
    ELSE << [ param |-> "course",
              value |-> encodeURIComponent(SearchedValue(suggestion)) ] >>

handleSearch(suggestion) ==
    /\ UNCHANGED << resultsVars, pureVars >>
    /\ searchInput' = suggestion
    /\ suggestions' = << >>
    /\ selection' = [ suggestion |-> suggestion,
                      pushes     |-> RouterPushes(suggestion),
                      resets     |-> ResetInvocations(suggestion) ]
    /\ selectionFresh' = TRUE
    /\ UNCHANGED << propVars, mounted, isLoading, debounceVars, requestVars >>

\* A click on the i-th item of the list, rendered when there are suggestions
\* and nothing is loading.
SuggestionClick(i) ==
    /\ mounted
    /\ Len(suggestions) > 0
    /\ ~isLoading
    /\ i \in 1..Len(suggestions)
    /\ handleSearch(suggestions[i].suggestion)

\* onKeyDown with Enter: the first suggestion, if there is one.
EnterKey ==
    /\ mounted
    /\ Len(suggestions) > 0
    /\ handleSearch(suggestions[1].suggestion)

\* A click on the search icon: the first suggestion, if there is one.
SearchIconClick ==
    /\ mounted
    /\ Len(suggestions) > 0
    /\ handleSearch(suggestions[1].suggestion)

SearchNext ==
    \/ \E input \in Inputs : handleInputChange(input)
    \/ Elapse
    \/ fetchSuggestionsInvoke
    \/ \E r \in inflight, outcome \in Outcomes :
          fetchSuggestionsSettle(r, outcome)
    \/ \E i \in 1..Len(suggestions) : SuggestionClick(i)
    \/ EnterKey
    \/ SearchIconClick
    \/ \E v \in InitialValues : InitialValueChange(v)
    \/ Unmount

\* ------------------------------------------------------------------------
\* The results view: data
\* ------------------------------------------------------------------------

\* Course fetches issued in one run.
MaxFetches == 2

\* JavaScript values: null, a string, a number (v: its decimal rendering).
Null == [ t |-> "null", v |-> "" ]

Str(s) == [ t |-> "string", v |-> s ]

Num(s) == [ t |-> "number", v |-> s ]

\* e.target.value of an option rendered with value={x}: x as a string
OptionValue(x) == Str(x.v)

\* x ? ... : ...
Truthy(x) ==
    /\ x.t # "null"
    /\ ~(x.t = "string" /\ x.v = "")
    /\ ~(x.t = "number" /\ x.v = "0")

SectionRecord(instructor, year, semester, section, gpa) ==
    [ instructor1    |-> Str(instructor),
      year           |-> year,
      semester       |-> Str(semester),
      section_number |-> Str(section),
      course_gpa     |-> gpa ]

\* The record lists the endpoint answers with: none; string years, with two
\* records of one professor sharing a section number; numeric years.
Datasets ==
    { << >>,
      << SectionRecord("Smith", Str("2023"), "Fall", "001", 31),
         SectionRecord("Smith", Str("2022"), "Spring", "002", 29),
         SectionRecord("Jones", Str("2023"), "Fall", "001", 30),
         SectionRecord("Smith", Str("2022"), "Fall", "001", 35) >>,
      << SectionRecord("Smith", Num("2023"), "Fall", "001", 33),
         SectionRecord("Lee", Num("2021"), "Spring", "003", 27) >> }

\* How a course fetch settles.
CourseOutcomes ==
    { [ kind |-> "transport", data |-> << >> ],
      [ kind |-> "parse", data |-> << >> ] }
        \cup { [ kind |-> "ok", data |-> d ] : d \in Datasets }

\* The professor a navigation of the search component can name.
ProfessorParams == { Str("Ann Lee") }

\* searchParams.get('course'): absent, or the course searched for.
CourseParams == { Null, Str("CS 3320"), Str("CS 1310") }

\* ------------------------------------------------------------------------
\* The results view: derived lists (recomputed at every render)
\* ------------------------------------------------------------------------

\* [...new Set(list)]: the distinct values, in first-seen order.
RECURSIVE Distinct(_)
Distinct(list) ==
    IF list = << >> THEN << >>
    ELSE LET front == Distinct(SubSeq(list, 1, Len(list) - 1))
             x     == list[Len(list)]
         IN  IF \E i \in 1..Len(front) : front[i] = x
             THEN front
             ELSE Append(front, x)

MapSeq(list, F(_)) == [ i \in 1..Len(list) |-> F(list[i]) ]

professors == Distinct(MapSeq(courses, LAMBDA c : c.instructor1))

filteredCourses ==
    IF Truthy(selectedProfessor)
    THEN SelectSeq(courses, LAMBDA c : c.instructor1 = selectedProfessor)
    ELSE << >>

\* The years of the records that also pass the year and semester filters.
yearsNarrowed ==
    Distinct(MapSeq(SelectSeq(filteredCourses,
                              LAMBDA c :
                                  /\ IF Truthy(selectedYear)
                                     THEN c.year = selectedYear ELSE TRUE
                                  /\ IF Truthy(selectedSemester)
                                     THEN c.semester = selectedSemester ELSE TRUE),
                    LAMBDA c : c.year))

years == Distinct(MapSeq(filteredCourses, LAMBDA c : c.year))

semesters == Distinct(MapSeq(filteredCourses, LAMBDA c : c.semester))

\* A filter that lets a record pass when either condition holds.
MatchesSelectionEither(c) ==
    \/ IF Truthy(selectedYear) THEN c.year = selectedYear ELSE TRUE
    \/ IF Truthy(selectedSemester) THEN c.semester = selectedSemester ELSE TRUE

\* The filter of finalFilteredCourses.
MatchesSelection(c) ==
    /\ IF Truthy(selectedYear) THEN c.year = selectedYear ELSE TRUE
    /\ IF Truthy(selectedSemester) THEN c.semester = selectedSemester ELSE TRUE

\* A reduce that keeps the last record of each section number.
RECURSIVE UniqueBySectionLast(_)
UniqueBySectionLast(list) ==
    IF list = << >> THEN << >>
    ELSE LET rest == UniqueBySectionLast(Tail(list))
         IN  IF \E i \in 1..Len(rest) :
                    rest[i].section_number = list[1].section_number
             THEN rest
             ELSE << list[1] >> \o rest

\* .reduce((unique, item) => unique.some(same section_number) ? unique
\*                                                             : [...unique, item], [])
RECURSIVE UniqueBySection(_)
UniqueBySection(list) ==
    IF list = << >> THEN << >>
    ELSE LET unique == UniqueBySection(SubSeq(list, 1, Len(list) - 1))
             item   == list[Len(list)]
         IN  IF \E i \in 1..Len(unique) :
                    unique[i].section_number = item.section_number
             THEN unique
             ELSE Append(unique, item)

finalFilteredCourses ==
    UniqueBySection(SelectSeq(filteredCourses, MatchesSelection))

\* The branch of the render that shows the sidebar and the right pane.
ResultsShown == ~loading /\ Len(courses) # 0

\* The right pane shows a section's statistics.
DetailPaneShown == ResultsShown /\ selectedSection # Null

\* ------------------------------------------------------------------------
\* The results view: operations
\* ------------------------------------------------------------------------

\* useState initial values; no effect has run yet.
ResultsInit ==
    /\ courseParam = Null
    /\ professorParam = Null
    /\ courses = << >>
    /\ loading = TRUE
    /\ selectedProfessor = Null
    /\ selectedYear = Null
    /\ selectedSemester = Null
    /\ selectedSection = Null
    /\ fetched = 0
    /\ fetching = { }
    /\ professorClick = [ professor |-> Null, found |-> Null ]
    /\ settled = [ seq |-> 0, kind |-> "none" ]

\* The route's course parameter changes (the first render included) and the
\* effect on [course] runs: with a course, fetchCourses() starts, up to its
\* await, and the four selections are reset.
CourseChange(c) ==
    /\ UNCHANGED << searchVars, pureVars >>
    /\ c # courseParam
    /\ courseParam' = c
    /\ professorParam' = Null
    /\ IF Truthy(c)
       THEN /\ fetched < MaxFetches
            /\ loading' = TRUE
            /\ fetched' = fetched + 1
            /\ fetching' = fetching \cup { [ seq |-> fetched + 1, course |-> c ] }
            /\ selectedProfessor' = Null
            /\ selectedYear' = Null
            /\ selectedSemester' = Null
            /\ selectedSection' = Null
       ELSE UNCHANGED << loading, fetched, fetching, selectionVars >>
    /\ UNCHANGED << courses, professorClick, settled >>

\* The route becomes /results?professor=p, as handleSearch pushes it for a
\* professor suggestion: searchParams.get('course') is null, so the effect on
\* [course], when it runs, finds no course: no fetch and no reset.
ProfessorNavigation(p) ==
    /\ UNCHANGED << searchVars, pureVars >>
    /\ p # professorParam
    /\ professorParam' = p
    /\ courseParam' = Null
    /\ UNCHANGED << courses, loading, selectionVars, fetched, fetching,
                    professorClick, settled >>

\* fetchCourses after its awaits: setCourses(data), or the catch, which only
\* logs; then the finally, setLoading(false).
fetchCoursesSettle(f, outcome) ==
    /\ UNCHANGED << searchVars, pureVars >>
    /\ f \in fetching
    /\ fetching' = fetching \ { f }
    /\ courses' = IF outcome.kind = "ok" THEN outcome.data ELSE courses
    /\ loading' = FALSE
    /\ settled' = [ seq  |-> f.seq,
                    kind |-> IF outcome.kind = "ok" THEN "fulfilled" ELSE "rejected" ]
    /\ UNCHANGED << courseParam, professorParam, fetched, selectionVars, professorClick >>

\* A handler that leaves the section selected, as the Back button does.
handleProfessorClickKeepSection(p) ==
    /\ UNCHANGED << searchVars, pureVars >>
    /\ ResultsShown
    /\ ~Truthy(selectedProfessor)
    /\ \E i \in 1..Len(professors) : professors[i] = p
    /\ selectedProfessor' = p
    /\ selectedYear' = Null
    /\ selectedSemester' = Null
    /\ professorClick' = [ professor |-> p, found |-> selectedSection ]
    /\ UNCHANGED << courseParam, professorParam, courses, loading, fetched, fetching, settled,
                    selectedSection >>

\* handleProfessorClick, from an item of the professor list, which is rendered
\* while no professor is selected.
handleProfessorClick(p) ==
    /\ UNCHANGED << searchVars, pureVars >>
    /\ ResultsShown
    /\ ~Truthy(selectedProfessor)
    /\ \E i \in 1..Len(professors) : professors[i] = p
    /\ selectedProfessor' = p
    /\ selectedYear' = Null
    /\ selectedSemester' = Null
    /\ selectedSection' = Null
    /\ professorClick' = [ professor |-> p, found |-> selectedSection ]
    /\ UNCHANGED << courseParam, professorParam, courses, loading, fetched, fetching, settled >>

\* The year select's onChange: setSelectedYear(e.target.value), the value
\* attribute of the chosen option, a string.
YearChange(i) ==
    /\ UNCHANGED << searchVars, pureVars >>
    /\ ResultsShown
    /\ Truthy(selectedProfessor)
    /\ i \in 1..Len(years)
    /\ selectedYear' = OptionValue(years[i])
    /\ UNCHANGED << courseParam, professorParam, courses, loading, fetched, fetching, settled,
                    selectedProfessor, selectedSemester, selectedSection,
                    professorClick >>

\* The semester select's onChange: setSelectedSemester(e.target.value)
SemesterChange(i) ==
    /\ UNCHANGED << searchVars, pureVars >>
    /\ ResultsShown
    /\ Truthy(selectedProfessor)
    /\ i \in 1..Len(semesters)
    /\ selectedSemester' = OptionValue(semesters[i])
    /\ UNCHANGED << courseParam, professorParam, courses, loading, fetched, fetching, settled,
                    selectedProfessor, selectedYear, selectedSection,
                    professorClick >>

\* A click on the i-th item of the section list: setSelectedSection(course)
SectionClick(i) ==
    /\ UNCHANGED << searchVars, pureVars >>
    /\ ResultsShown
    /\ Truthy(selectedProfessor)
    /\ i \in 1..Len(finalFilteredCourses)
    /\ selectedSection' = finalFilteredCourses[i]
    /\ UNCHANGED << courseParam, professorParam, courses, loading, fetched, fetching, settled,
                    selectedProfessor, selectedYear, selectedSemester,
                    professorClick >>

\* The Back to Professors button: professor, year and semester are cleared.
BackToProfessors ==
    /\ UNCHANGED << searchVars, pureVars >>
    /\ ResultsShown
    /\ Truthy(selectedProfessor)
    /\ selectedProfessor' = Null
    /\ selectedYear' = Null
    /\ selectedSemester' = Null
    /\ UNCHANGED << courseParam, professorParam, courses, loading, fetched, fetching, settled,
                    selectedSection, professorClick >>

ResultsNext ==
    \/ \E c \in CourseParams : CourseChange(c)
    \/ \E p \in ProfessorParams : ProfessorNavigation(p)
    \/ \E f \in fetching, outcome \in CourseOutcomes :
          fetchCoursesSettle(f, outcome)
    \/ \E i \in 1..Len(professors) : handleProfessorClick(professors[i])
    \/ \E i \in 1..Len(years) : YearChange(i)
    \/ \E i \in 1..Len(semesters) : SemesterChange(i)
    \/ \E i \in 1..Len(finalFilteredCourses) : SectionClick(i)
    \/ BackToProfessors

\* ------------------------------------------------------------------------
\* Specifications
\* ------------------------------------------------------------------------

\* The search component as the results view mounts it: initialValue alone.
SearchParked ==
    /\ SearchInit
    /\ initialValue = << >>
    /\ resetState = FALSE
    /\ course = Undefined
    /\ professor = Undefined
    /\ routeType = "null"

\* Nothing handed to the two functions checked on their own.
PureParked ==
    /\ raw = << >>
    /\ once = Undefined
    /\ twice = Undefined
    /\ picked = << >>
    /\ carried = Undefined

InitSearch == SearchInit /\ ResultsInit /\ PureParked

InitResults == ResultsInit /\ SearchParked /\ PureParked

\* The search component, under every combination of props.
SpecSearch == InitSearch /\ [][SearchNext]_vars

\* The results view.
SpecResults == InitResults /\ [][ResultsNext]_vars

\* The results view, with every course fetch that was issued settling in
\* the end.
SpecResultsFair ==
    /\ InitResults
    /\ [][ResultsNext]_vars
    /\ WF_vars(\E f \in fetching, outcome \in CourseOutcomes :
                   fetchCoursesSettle(f, outcome))

\* ------------------------------------------------------------------------
\* Claims about the search component (checked under SpecSearch)
\* ------------------------------------------------------------------------

\* A step of handleInputChange: the latest keystroke is a new one.
KeystrokeStep ==
    /\ lastKey' # Undefined
    /\ (lastKey' # lastKey \/ burstKeys' # burstKeys)

\* A step in which the debounced call that was pending runs: the wait has
\* passed since the latest keystroke and the component is still mounted.
DebouncedRunStep ==
    /\ timerPending
    /\ sinceCall >= DebounceWait
    /\ ~timerPending'
    /\ mounted'

\* C1, as stated: a burst of keystrokes followed by 100 ms of silence
\* dispatches exactly one suggestion request, carrying the normalized input
\* of the last keystroke.
C1_OneRequestPerBurst ==
    [][DebouncedRunStep =>
          /\ dispatched' = dispatched + 1
          /\ inflight' = inflight \cup
                 { [ seq   |-> dispatched + 1,
                     query |-> encodeURIComponent(normalizeSearchInput(lastKey)) ] }
      ]_vars

\* C1, amended: a request is dispatched only when the debounced call runs,
\* 100 ms after the last keystroke of a burst; it carries the normalized
\* input of that last keystroke, never an earlier one; a burst whose last
\* keystroke leaves a non-empty input dispatches exactly one request, and
\* one whose last keystroke leaves the input empty dispatches none.
C1_Debounce ==
    [][/\ (dispatched' # dispatched \/ inflight' \ inflight # { }) =>
              /\ DebouncedRunStep
              /\ lastKey # << >>
              /\ dispatched' = dispatched + 1
              /\ inflight' = inflight \cup
                     { [ seq   |-> dispatched + 1,
                         query |-> encodeURIComponent(normalizeSearchInput(lastKey)) ] }
       /\ DebouncedRunStep =>
              dispatched' = dispatched + (IF lastKey = << >> THEN 0 ELSE 1)
      ]_vars

\* A burst of two keystrokes has been followed by the wait, and the one
\* request dispatched for it is in flight, carrying "cs 3320".
C1_Witness ==
    /\ burstKeys >= 2
    /\ ~timerPending
    /\ mounted
    /\ dispatched = 1
    /\ inflight = { [ seq   |-> 1,
                      query |-> << "c", "s", "%", "2", "0", "3", "3", "2", "0" >> ] }

\* C2: a stale response cannot overwrite newer state: when a request settles
\* after a request dispatched later has already written the suggestion list,
\* its settling leaves the list as it is.
C2_NoStaleOverwrite ==
    [][\A r \in inflight :
          (r \notin inflight' /\ r.seq < applied.seq) =>
              suggestions' = suggestions
      ]_vars

\* C3: after the component is unmounted, neither the suggestion list nor
\* the loading flag changes.
C3_NoMutationAfterTeardown ==
    [][~mounted => (suggestions' = suggestions /\ isLoading' = isLoading)]_vars

\* C4, as stated: a keystroke that leaves the input empty empties the
\* suggestion list in the same step, and causes no request.
C4_EmptyInputClearsImmediately ==
    [][(KeystrokeStep /\ lastKey' = << >>) =>
          (suggestions' = << >> /\ dispatched' = dispatched /\ inflight' = inflight)
      ]_vars

\* C4, amended: a keystroke that leaves the input empty never causes a
\* request; the keystroke itself leaves the suggestion list as it is, and
\* the list is emptied when the debounced call for that keystroke runs, once
\* 100 ms have passed without a later keystroke or the unmount.
C4_EmptyInputClearsAfterWait ==
    [][/\ (KeystrokeStep /\ lastKey' = << >>) =>
              (suggestions' = suggestions /\ dispatched' = dispatched
                  /\ inflight' = inflight)
       /\ (DebouncedRunStep /\ lastKey = << >>) =>
              (suggestions' = << >> /\ dispatched' = dispatched
                  /\ inflight' = inflight)
      ]_vars

\* The input has been emptied, the wait has passed in full, and the list of
\* an earlier response is still there.
C4_Witness ==
    /\ timerPending
    /\ lastKey = << >>
    /\ sinceCall >= DebounceWait
    /\ suggestions # << >>

\* C5: when a request settles, the loading flag is cleared, whether the
\* request was fulfilled or rejected; when it is rejected (by fetch or by
\* response.json()), the suggestion list is set to empty.
C5_SettleClearsLoading ==
    [][\A r \in inflight :
          r \notin inflight' =>
              /\ isLoading' = FALSE
              /\ applied'.seq = r.seq
              /\ applied'.kind = "rejected" => suggestions' = << >>
      ]_vars

\* The second request was rejected while the first was still in flight.
C5_Witness ==
    /\ applied = [ seq |-> 2, kind |-> "rejected" ]
    /\ suggestions = << >>
    /\ ~isLoading
    /\ \E r \in inflight : r.seq = 1

\* The navigation of the latest selection leads to the content displayed:
\* the same course on a course route, the same professor on a professor route.
SelectionIsDisplayed ==
    \E k \in 1..Len(selection.pushes) :
        LET nav == selection.pushes[k]
        IN  \/ /\ nav.param = "course"
               /\ routeType = "course"
               /\ nav.value = encodeURIComponent(course)
            \/ /\ nav.param = "professor"
               /\ routeType = "professor"
               /\ nav.value = encodeURIComponent(professor)

\* C6: with a reset callback supplied, a selection that leads to the content
\* already displayed does not invoke the callback, and a selection that leads
\* anywhere else invokes it exactly once.
C6_ResetOnlyForNewContent ==
    (resetState /\ selection # NoSelection) =>
        selection.resets = IF SelectionIsDisplayed THEN 0 ELSE 1

\* On the page of CS 3320, "CS 3320 OS" was selected and the callback not
\* invoked.
C6_Witness ==
    /\ resetState
    /\ routeType = "course"
    /\ course = CS3320
    /\ selection.suggestion = CS3320OS
    /\ selection.resets = 0

\* C7: every selection event makes exactly one router.push and invokes the
\* reset callback at most once.
C7_OneNavigationPerSelection ==
    selection # NoSelection =>
        (Len(selection.pushes) = 1 /\ selection.resets \in { 0, 1 })

\* A professor was selected: one push to the professor route, one reset.
C7_Witness ==
    /\ selection.suggestion = BoRayKim
    /\ selection.pushes =
           << [ param |-> "professor",
                value |-> encodeURIComponent(BoRayKim) ] >>
    /\ selection.resets = 1

\* C18: after a selection event the suggestion list is empty, and it stays
\* empty until the next keystroke, whatever debounced call was pending and
\* whatever requests were in flight when the selection was made.
C18_EmptyUntilNextKeystroke == selectionFresh => suggestions = << >>

\* C20: while the component is mounted, the loading flag is set exactly
\* when some suggestion request that was dispatched has not settled yet.
C20_LoadingIffInFlight == mounted => (isLoading <=> inflight # { })

\* ------------------------------------------------------------------------
\* Claims about the results view (checked under SpecResults)
\* ------------------------------------------------------------------------

\* A step of handleProfessorClick: a professor becomes the selected one.
ProfessorClickStep ==
    /\ selectedProfessor' # Null
    /\ selectedProfessor' # selectedProfessor

\* C8: selecting a professor sets selectedProfessor to that professor and
\* clears selectedYear, selectedSemester and selectedSection.
C8_ProfessorClickResets ==
    [][ProfessorClickStep =>
          /\ selectedProfessor' = professorClick'.professor
          /\ selectedYear' = Null
          /\ selectedSemester' = Null
          /\ selectedSection' = Null
      ]_vars

\* A professor was clicked while a section was still selected (after Back
\* to Professors), and the section is now cleared.
C8_Witness ==
    /\ professorClick.found # Null
    /\ selectedProfessor = professorClick.professor
    /\ selectedYear = Null
    /\ selectedSemester = Null
    /\ selectedSection = Null

\* The selected section is an item of the section list.
SectionInFinalFiltered ==
    \E i \in 1..Len(finalFilteredCourses) :
        finalFilteredCourses[i] = selectedSection

\* A step of the year or the semester select's onChange.
NarrowingStep ==
    \/ selectedYear' # selectedYear /\ selectedYear' # Null
    \/ selectedSemester' # selectedSemester /\ selectedSemester' # Null

\* Every record's year is stored as a string, as the select delivers it.
YearsAreStrings == \A i \in 1..Len(courses) : courses[i].year.t = "string"

\* C9: choosing a year or a semester picks no section, and afterwards the
\* detail pane is shown only for a section of the narrowed list (stated for
\* record lists whose years are strings, where every choice offered matches).
C9_DetailPaneWithinFiltered ==
    [][(NarrowingStep /\ YearsAreStrings) =>
          /\ selectedSection' \in { selectedSection, Null }
          /\ DetailPaneShown' => SectionInFinalFiltered'
      ]_vars

\* The records of the selected professor that match the year and semester
\* selected, in source order.
NarrowedRecords == SelectSeq(filteredCourses, MatchesSelection)

\* C10: finalFilteredCourses holds at most one record per section_number,
\* and for each section_number of the narrowed records it holds the first
\* record with that section_number.
C10_DeduplicatedKeepingFirst ==
    LET final == finalFilteredCourses
        src   == NarrowedRecords
    IN  /\ \A i, j \in 1..Len(final) :
               i # j => final[i].section_number # final[j].section_number
        /\ \A i \in 1..Len(final) :
               \E k \in 1..Len(src) :
                   /\ src[k] = final[i]
                   /\ \A h \in 1..(k - 1) :
                          src[h].section_number # final[i].section_number
        /\ \A k \in 1..Len(src) :
               \E i \in 1..Len(final) :
                   final[i].section_number = src[k].section_number

\* Smith is selected and two of Smith's records share section 001: the
\* list shows fewer records than match.
C10_Witness ==
    /\ ResultsShown
    /\ Len(NarrowedRecords) = 3
    /\ Len(finalFilteredCourses) = 2

\* The positions, in the record list, of the records finalFiltered is to
\* hold: the record is of the selected professor, it has the selected year if
\* one is set and the selected semester if one is set, and no earlier record
\* that passes the same conditions has its section_number.
PassesFilters(k) ==
    /\ selectedProfessor # Null
    /\ courses[k].instructor1 = selectedProfessor
    /\ selectedYear # Null => courses[k].year = selectedYear
    /\ selectedSemester # Null => courses[k].semester = selectedSemester

KeptPositions ==
    { k \in 1..Len(courses) :
        /\ PassesFilters(k)
        /\ \A h \in 1..(k - 1) :
               PassesFilters(h) =>
                   courses[h].section_number # courses[k].section_number }

\* The i-th kept position, in source order.
KeptPosition(i) ==
    CHOOSE k \in KeptPositions :
        Cardinality({ h \in KeptPositions : h < k }) = i - 1

\* C11: finalFiltered is the records of the selected professor (none when no
\* professor is selected), restricted to the selected year when one is set
\* and to the selected semester when one is set, in source order, with only
\* the first record of each section_number kept.
C11_FinalFilteredDefinition ==
    /\ Len(finalFilteredCourses) = Cardinality(KeptPositions)
    /\ \A i \in 1..Len(finalFilteredCourses) :
           finalFilteredCourses[i] = courses[KeptPosition(i)]

\* Smith, 2022 and Fall are selected: of Smith's three records only the
\* fourth record of the list, section 001 of Fall 2022, is left.
C11_Witness ==
    /\ selectedProfessor = Str("Smith")
    /\ selectedYear = Str("2022")
    /\ selectedSemester = Str("Fall")
    /\ KeptPositions = { 4 }
    /\ Len(finalFilteredCourses) = 1
    /\ finalFilteredCourses[1].course_gpa = 35

\* The positions of the records that are the first, among the records
\* satisfying Of, to have their value of Field.
FirstSeenPositions(Field(_), Of(_)) ==
    { k \in 1..Len(courses) :
        /\ Of(courses[k])
        /\ \A h \in 1..(k - 1) :
               Of(courses[h]) => Field(courses[h]) # Field(courses[k]) }

\* list holds the values of Field at the positions of S, in source order.
ListsFieldAt(list, Field(_), S) ==
    /\ Len(list) = Cardinality(S)
    /\ \A i \in 1..Len(list) :
           \E k \in S :
               /\ Cardinality({ h \in S : h < k }) = i - 1
               /\ list[i] = Field(courses[k])

\* The record is of the selected professor, if there is one.
OfSelectedProfessor(c) ==
    selectedProfessor # Null /\ c.instructor1 = selectedProfessor

\* C12: professors is the distinct instructor1 values of all records in
\* first-seen order; years and semesters are the distinct year and semester
\* values, in first-seen order, of the records of the selected professor
\* alone: they are empty when no professor is selected, and the selected year
\* and semester have no part in them.
C12_DerivedLists ==
    /\ ListsFieldAt(professors, LAMBDA c : c.instructor1,
                    FirstSeenPositions(LAMBDA c : c.instructor1, LAMBDA c : TRUE))
    /\ ListsFieldAt(years, LAMBDA c : c.year,
                    FirstSeenPositions(LAMBDA c : c.year, OfSelectedProfessor))
    /\ ListsFieldAt(semesters, LAMBDA c : c.semester,
                    FirstSeenPositions(LAMBDA c : c.semester, OfSelectedProfessor))
    /\ selectedProfessor = Null => (years = << >> /\ semesters = << >>)

\* Smith and the year 2023 are selected, and the lists still offer both of
\* Smith's years and both semesters, while Jones is among the professors.
C12_Witness ==
    /\ selectedProfessor = Str("Smith")
    /\ selectedYear = Str("2023")
    /\ professors = << Str("Smith"), Str("Jones") >>
    /\ years = << Str("2023"), Str("2022") >>
    /\ semesters = << Str("Fall"), Str("Spring") >>

\* A step in which the one course fetch in flight settles as rejected: by
\* fetch, or by response.json().
FailedFetchSettles ==
    /\ Cardinality(fetching) = 1
    /\ fetching' = { }
    /\ settled'.kind = "rejected"

\* C13: when a course fetch fails, the view is left with an empty record
\* list and out of its loading state, whatever records it held before.
C13_FailedFetchEmptiesList ==
    [][FailedFetchSettles => (courses' = << >> /\ ~loading')]_vars

\* The route names what the search component navigated to.
RouteLoaded == courseParam # Null \/ professorParam # Null

\* C14: after a navigation to /results?course=<value> or to
\* /results?professor=<value>, the view eventually leaves its loading state,
\* given that every fetch issued settles.
C14_NavigationLeavesLoading == RouteLoaded ~> ~loading

\* C19: whenever a section is selected, a professor is selected too, and it
\* is the instructor1 of that section.
C19_SectionUnderItsProfessor ==
    selectedSection # Null =>
        /\ selectedProfessor # Null
        /\ selectedProfessor = selectedSection.instructor1

\* C21: when the course changes while the fetch for the former course is in
\* flight, the record list ends as the response for the current course: once
\* the fetch issued later has been fulfilled, the settling of the fetch
\* issued earlier leaves the list as it is.
C21_CurrentCourseWins ==
    [][\A f \in fetching :
          ( /\ f \notin fetching'
            /\ f.course # courseParam
            /\ f.seq < settled.seq
            /\ settled.kind = "fulfilled" ) =>
              courses' = courses
      ]_vars

\* The selected year is one the years dropdown offers.
YearOffered ==
    \E i \in 1..Len(years) : OptionValue(years[i]) = selectedYear

\* The selected semester is one the semesters dropdown offers.
SemesterOffered ==
    \E i \in 1..Len(semesters) : OptionValue(semesters[i]) = selectedSemester

\* C22: with a professor selected, a year chosen from the dropdown and no
\* semester, finalFiltered is not empty and holds records of that professor
\* and year only; likewise with a semester chosen and no year; whether the
\* records store the year as a string or as a number.
C22_OfferedChoiceMatches ==
    /\ ( /\ selectedProfessor # Null
         /\ selectedYear # Null
         /\ selectedSemester = Null
         /\ YearOffered ) =>
            /\ finalFilteredCourses # << >>
            /\ \A i \in 1..Len(finalFilteredCourses) :
                   /\ finalFilteredCourses[i].instructor1 = selectedProfessor
                   /\ OptionValue(finalFilteredCourses[i].year) = selectedYear
    /\ ( /\ selectedProfessor # Null
         /\ selectedSemester # Null
         /\ selectedYear = Null
         /\ SemesterOffered ) =>
            /\ finalFilteredCourses # << >>
            /\ \A i \in 1..Len(finalFilteredCourses) :
                   /\ finalFilteredCourses[i].instructor1 = selectedProfessor
                   /\ finalFilteredCourses[i].semester = selectedSemester

\* ------------------------------------------------------------------------
\* normalizeSearchInput on its own
\* ------------------------------------------------------------------------

\* The longest string handed to the normalizer.
MaxLen == 4

\* Letters of both cases, g and G among them, a digit, a space and a tab.
NormalizerAlphabet == { "a", "B", "g", "G", "1", " ", "\t" }

NormalizerInputs == UNION { [ 1..n -> NormalizerAlphabet ] : n \in 0..MaxLen }

InitNormalizer ==
    /\ raw \in NormalizerInputs
    /\ once = Undefined
    /\ twice = Undefined
    /\ picked = << >>
    /\ carried = Undefined
    /\ SearchParked
    /\ ResultsInit

\* const normalizedInput = normalizeSearchInput(input)
NormalizeInput ==
    /\ once = Undefined
    /\ once' = normalizeSearchInput(raw)
    /\ UNCHANGED << searchVars, resultsVars, raw, twice, picked, carried >>

\* The normalizer applied to what it returned.
NormalizeAgain ==
    /\ once # Undefined
    /\ twice = Undefined
    /\ twice' = normalizeSearchInput(once)
    /\ UNCHANGED << searchVars, resultsVars, raw, once, picked, carried >>

NormalizerNext == NormalizeInput \/ NormalizeAgain

SpecNormalizer == InitNormalizer /\ [][NormalizerNext]_vars

\* ------------------------------------------------------------------------
\* Claims about the normalizer (checked under SpecNormalizer)
\* ------------------------------------------------------------------------

\* C15: the normalizer is idempotent: applied to its own result, it returns
\* that result.
C15_NormalizerIdempotent == twice # Undefined => twice = once

\* "a G" was normalized to "a g", by the branch for names ending in g, and
\* then normalized again.
C15_Witness ==
    /\ raw = << "a", " ", "G" >>
    /\ once = << "a", " ", "g" >>
    /\ twice # Undefined

\* The words of a string: its maximal runs of characters that are not
\* whitespace, in order.
RECURSIVE Words(_)
Words(s) ==
    IF s = << >> THEN << >>
    ELSE IF IsSpace(s[1]) THEN Words(Tail(s))
    ELSE LET n == CHOOSE k \in 1..Len(s) :
                      /\ \A i \in 1..k : ~IsSpace(s[i])
                      /\ (k = Len(s) \/ IsSpace(s[k + 1]))
         IN  << SubSeq(s, 1, n) >> \o Words(SubSeq(s, n + 1, Len(s)))

\* s is one or more letters followed by one or more digits, the letters
\* being its first k characters.
LettersThenDigits(s, k) ==
    /\ k \in 1..(Len(s) - 1)
    /\ \A i \in 1..k : s[i] \in Letters
    /\ \A i \in (k + 1)..Len(s) : s[i] \in Digits

\* s is letters ending in g, of either case, after at least one letter.
LettersEndingInG(s) ==
    /\ Len(s) >= 2
    /\ \A i \in 1..Len(s) : s[i] \in Letters
    /\ s[Len(s)] \in { "g", "G" }

\* What the normalizer is to return for x.
NormalizedAsSpecified(x) ==
    LET stripped == SelectSeq(x, LAMBDA c : c \notin Spaces)
    IN  IF \E k \in 1..Len(stripped) : LettersThenDigits(stripped, k)
        THEN LET k == CHOOSE j \in 1..Len(stripped) :
                          LettersThenDigits(stripped, j)
             IN  SubSeq(stripped, 1, k) \o << " " >>
                     \o SubSeq(stripped, k + 1, Len(stripped))
        ELSE IF LettersEndingInG(stripped)
        THEN SubSeq(stripped, 1, Len(stripped) - 1)
                 \o << " ", stripped[Len(stripped)] >>
        ELSE Join(Words(x))

\* C16: for an input that, without its whitespace, is letters followed by
\* digits, the normalizer returns the letters, one space and the digits, in
\* the case typed; else, for one that is letters ending in g, it returns
\* that string with its last letter taken off and put back as a word of its
\* own; else it returns the input with every run of whitespace made one
\* space and none at either end.
C16_NormalizerDefinition == once # Undefined => once = NormalizedAsSpecified(raw)

\* ------------------------------------------------------------------------
\* handleSearch's rewriting of the suggestion, on its own
\* ------------------------------------------------------------------------

\* The longest second word of a suggestion handed to handleSearch.
MaxToken == 4

\* Digits, and the other characters a numeric literal can hold.
TokenAlphabet == { "0", "1", "e", ".", "x", "+" }

SecondTokens == UNION { [ 1..n -> TokenAlphabet ] : n \in 0..MaxToken }

\* The words that can follow the second one: none, or a course title.
Titles == { << >>, << << "O", "S" >> >> }

\* A prefix, a second word and perhaps a title; and the names of professors.
SuggestionTexts ==
    { Join(<< << "C", "S" >>, t >> \o title) :
          t \in SecondTokens, title \in Titles }
        \cup { AnnLee, BoRayKim }

InitSelection ==
    /\ picked \in SuggestionTexts
    /\ carried = Undefined
    /\ raw = << >>
    /\ once = Undefined
    /\ twice = Undefined
    /\ SearchParked
    /\ ResultsInit

\* handleSearch(picked), with no list to find picked in: the value of its
\* one router.push.
SelectPicked ==
    /\ carried = Undefined
    /\ carried' = RouterPushes(picked)[1].value
    /\ UNCHANGED << searchVars, resultsVars, raw, once, twice, picked >>

SelectionNext == SelectPicked

SpecSelection == InitSelection /\ [][SelectionNext]_vars

\* ------------------------------------------------------------------------
\* Claims about the rewriting (checked under SpecSelection)
\* ------------------------------------------------------------------------

\* Exactly four decimal digits.
IsFourDigitNumber(t) == Len(t) = 4 /\ \A i \in 1..4 : t[i] \in Digits

\* C17: when the first two space-separated words of the selected suggestion
\* are a prefix and a number of exactly four decimal digits, the navigation
\* carries "<PREFIX> <NUMBER>", without the title; when the second word is
\* not such a number, it carries the suggestion as it is.
C17_FourDigitCanonicalisation ==
    carried # Undefined =>
        LET words == Split(picked)
        IN  carried = encodeURIComponent(
                IF Len(words) >= 2 /\ IsFourDigitNumber(words[2])
                THEN words[1] \o << " " >> \o words[2]
                ELSE picked)

====
